---- MODULE Spec2Model ----
(***************************************************************************)
(* Receipt extraction (receipt_processing.py) and route-sheet projection   *)
(* (route_sheet.py).  Text is modelled as sequences of one-character       *)
(* strings so that substring tests, case folding, regular-expression       *)
(* searches, integer parsing and date formatting are computed, not         *)
(* assumed.                                                                *)
(***************************************************************************)
EXTENDS Integers, Sequences, FiniteSets, TLC

\* ------------------------------------------------------------------ bounds
\* number of OCR lines folded in one extraction
MaxLines == 3

\* ------------------------------------------------------------ text helpers
Uppers == <<"A","B","C","D","E","F","G","H","I","J","K","L","M","N","O","P","Q","R","S","T","U","V","W","X","Y","Z">>
Lowers == <<"a","b","c","d","e","f","g","h","i","j","k","l","m","n","o","p","q","r","s","t","u","v","w","x","y","z">>
Digits == <<"0","1","2","3","4","5","6","7","8","9">>
Whitespace == {" ", "\t"}

Range(s) == {s[i] : i \in 1..Len(s)}

\* str.lower() on one character
LowerChar(c) ==
  IF \E i \in 1..26 : Uppers[i] = c
    THEN Lowers[CHOOSE i \in 1..26 : Uppers[i] = c]
    ELSE c

\* str.lower()
Lower(s) == [i \in 1..Len(s) |-> LowerChar(s[i])]

\* Python's  sub in s  (substring test, case-sensitive)
Contains(sub, s) ==
  \E i \in 0..(Len(s) - Len(sub)) : SubSeq(s, i + 1, i + Len(sub)) = sub

\* Python's  sub.lower() in s.lower()
ContainsNoCase(sub, s) == Contains(Lower(sub), Lower(s))

IsDigit(c) == c \in Range(Digits)

DigitVal(c) == (CHOOSE i \in 1..10 : Digits[i] = c) - 1

\* int(text) for a run of decimal digits
RECURSIVE ParseInt(_)
ParseInt(ds) ==
  IF ds = <<>> THEN 0
  ELSE ParseInt(SubSeq(ds, 1, Len(ds) - 1)) * 10 + DigitVal(ds[Len(ds)])

\* str.strip()
RECURSIVE Strip(_)
Strip(s) ==
  IF s = <<>> THEN s
  ELSE IF s[1] \in Whitespace THEN Strip(Tail(s))
  ELSE IF s[Len(s)] \in Whitespace THEN Strip(SubSeq(s, 1, Len(s) - 1))
  ELSE s

\* last index of the maximal run of characters satisfying a class, from i
RunEnd(s, i, class) ==
  CHOOSE j \in i..Len(s) :
    /\ \A k \in i..j : s[k] \in class
    /\ (j = Len(s) \/ s[j + 1] \notin class)

\* re.search(r"(\d+)", line): group(1), or <<>> when there is no match
FirstDigitRun(s) ==
  LET pos == {i \in 1..Len(s) : IsDigit(s[i])} IN
  IF pos = {} THEN <<>>
  ELSE LET start == CHOOSE i \in pos : \A k \in pos : i <= k
       IN SubSeq(s, start, RunEnd(s, start, Range(Digits)))

\* the alternation of the priced-line pattern, in pattern order
price_labels ==
  << <<"Y","o","u","t","h"," ","B","L">>, <<"Y","o","u","t","h"," ","R","e","n","e","w","a","l">>, <<"A","d","u","l","t"," ","R","e","n","e","w","a","l">>, <<"A","d","u","l","t"," ","N","e","w">>,
     <<"Y","o","u","t","h"," ","P","r","o","g","r","a","m"," ","F","e","e">>, <<"A","d","u","l","t"," ","P","r","o","g","r","a","m"," ","F","e","e">> >>

\* the pattern (\d+)\s+(label) anchored at position i, case-insensitive
PriceMatchAt(s, i) ==
  /\ IsDigit(s[i])
  /\ LET j == RunEnd(s, i, Range(Digits)) IN
     /\ j < Len(s)
     /\ s[j + 1] \in Whitespace
     /\ LET k == RunEnd(s, j + 1, Whitespace) IN
        \E n \in 1..Len(price_labels) :
          /\ k + Len(price_labels[n]) <= Len(s)
          /\ Lower(SubSeq(s, k + 1, k + Len(price_labels[n])))
               = Lower(price_labels[n])

\* re.search of the priced-line pattern: leftmost match, groups 1 and 2
PriceSearch(s) ==
  LET pos == {i \in 1..Len(s) : PriceMatchAt(s, i)} IN
  IF pos = {} THEN [found |-> FALSE, count |-> <<>>, label |-> <<>>]
  ELSE LET i == CHOOSE p \in pos : \A q \in pos : p <= q
           j == RunEnd(s, i, Range(Digits))
           k == RunEnd(s, j + 1, Whitespace)
           n == CHOOSE m \in 1..Len(price_labels) :
                  /\ k + Len(price_labels[m]) <= Len(s)
                  /\ Lower(SubSeq(s, k + 1, k + Len(price_labels[m])))
                       = Lower(price_labels[m])
                  /\ \A m2 \in 1..(m - 1) :
                       ~ ( /\ k + Len(price_labels[m2]) <= Len(s)
                           /\ Lower(SubSeq(s, k + 1, k + Len(price_labels[m2])))
                                = Lower(price_labels[m2]) )
       IN [found |-> TRUE,
           count |-> SubSeq(s, i, j),
           label |-> SubSeq(s, k + 1, k + Len(price_labels[n]))]

\* ------------------------------------------------------------ dict helpers
Has(d, k) == k \in DOMAIN d

\* d[k] = v on a Python dict
Put(d, k, v) == [x \in (DOMAIN d) \cup {k} |-> IF x = k THEN v ELSE d[x]]

\* ------------------------------------------------------------ fixed tables
district_map ==
  << [name |-> <<"C","a","l","u","m","e","t">>,       number |-> 1],
     [name |-> <<"A","g","u","i","l","a">>,        number |-> 2],
     [name |-> <<"P","r","a","i","r","i","e"," ","D","u","n","e","s">>, number |-> 3],
     [name |-> <<"T","h","u","n","d","e","r","b","i","r","d">>,   number |-> 4],
     [name |-> <<"C","h","e","c","a","u","g","a","u">>,     number |-> 5],
     [name |-> <<"I","r","o","n"," ","H","o","r","s","e">>,    number |-> 6],
     [name |-> <<"T","r","i","-","S","t","a","r">>,      number |-> 7],
     [name |-> <<"F","i","v","e"," ","C","r","e","e","k","s">>,   number |-> 9],
     [name |-> <<"T","a","l","l"," ","G","r","a","s","s">>,    number |-> 11],
     [name |-> <<"T","r","a","i","l","b","l","a","z","e","r">>,   number |-> 12] >>

price_fields ==
  [ f \in { "Youth Registration", "Charter Renewal", "Youth SL Subscription",
            "Youth Transfer", "Adult Registration", "Multiple/Position Change",
            "Adult Transfer", "Adult SL Subscription", "Youth Exploring",
            "Adult Exploring", "Program Fee" } |->
    CASE f = "Youth Registration"       -> "C9"
      [] f = "Charter Renewal"          -> "C8"
      [] f = "Youth SL Subscription"    -> "C10"
      [] f = "Youth Transfer"           -> "C11"
      [] f = "Adult Registration"       -> "C12"
      [] f = "Multiple/Position Change" -> "C13"
      [] f = "Adult Transfer"           -> "C14"
      [] f = "Adult SL Subscription"    -> "C15"
      [] f = "Youth Exploring"          -> "C16"
      [] f = "Adult Exploring"          -> "C17"
      [] f = "Program Fee"              -> "C18" ]

\* variant: one category is left out of the initial prices
InitPrices_missing == [f \in (DOMAIN price_fields) \ {"Program Fee"} |-> 0]

\* prices = {field: 0 for field in price_fields.keys()}
InitPrices == [f \in DOMAIN price_fields |-> 0]

K_Troop == <<"T","r","o","o","p">>
K_Pack == <<"P","a","c","k">>
K_Crew == <<"C","r","e","w">>
K_Ship == <<"S","h","i","p">>
K_Post == <<"P","o","s","t">>
K_CharterRenewal == <<"C","h","a","r","t","e","r"," ","R","e","n","e","w","a","l">>
K_UnitCharter == <<"U","n","i","t"," ","C","h","a","r","t","e","r">>

\* ------------------------------------------------------------ calendar
IsLeap(y) == y % 4 = 0 /\ (y % 100 # 0 \/ y % 400 = 0)

DaysInMonth(y, m) ==
  IF m = 2 THEN (IF IsLeap(y) THEN 29 ELSE 28)
  ELSE IF m \in {4, 6, 9, 11} THEN 30 ELSE 31

DaysBeforeYear(y) ==
  (y - 1) * 365 + ((y - 1) \div 4) - ((y - 1) \div 100) + ((y - 1) \div 400)

RECURSIVE DaysBeforeMonth(_, _)
DaysBeforeMonth(y, m) ==
  IF m = 1 THEN 0 ELSE DaysBeforeMonth(y, m - 1) + DaysInMonth(y, m - 1)

\* date.toordinal()
ToOrdinal(d) == DaysBeforeYear(d.year) + DaysBeforeMonth(d.year, d.month) + d.day

\* date.fromordinal(): the 400/100/4/1-year cycle decomposition
FromOrdinal(ord) ==
  LET n0   == ord - 1
      n400 == n0 \div 146097
      r400 == n0 % 146097
      n100 == r400 \div 36524
      r100 == r400 % 36524
      n4   == r100 \div 1461
      r4   == r100 % 1461
      n1   == r4 \div 365
      n    == r4 % 365
      year == n400 * 400 + 1 + n100 * 100 + n4 * 4 + n1
  IN IF n1 = 4 \/ n100 = 4
       THEN [year |-> year - 1, month |-> 12, day |-> 31]
       ELSE LET month == CHOOSE m \in 1..12 :
                           /\ DaysBeforeMonth(year, m) <= n
                           /\ n < DaysBeforeMonth(year, m) + DaysInMonth(year, m)
            IN [year |-> year, month |-> month,
                day |-> n - DaysBeforeMonth(year, month) + 1]

\* date + timedelta(days = k)
AddDays(d, k) == FromOrdinal(ToOrdinal(d) + k)

\* zero-padded decimal of width w
RECURSIVE ZeroPad(_, _)
ZeroPad(n, w) ==
  IF w = 0 THEN <<>> ELSE Append(ZeroPad(n \div 10, w - 1), Digits[(n % 10) + 1])

\* strftime("%Y-%m-%d")
Strftime(d) == ZeroPad(d.year, 4) \o <<"-">> \o ZeroPad(d.month, 2) \o <<"-">> \o ZeroPad(d.day, 2)

\* datetime.now().strftime("%Y-%m-01")
StrftimeFirstOfMonth(now) == ZeroPad(now.year, 4) \o <<"-">> \o ZeroPad(now.month, 2) \o <<"-","0","1">>

\* datetime.strptime(text, "%Y-%m-%d") on the text the extraction produces
Strptime(s) ==
  [year  |-> ParseInt(SubSeq(s, 1, 4)),
   month |-> ParseInt(SubSeq(s, 6, 7)),
   day   |-> ParseInt(SubSeq(s, 9, 10))]

\* variant: the day is not subtracted
ExpirationDate_plus365(effective_date) ==
  Strftime(AddDays(Strptime(effective_date), 365))

\* effective_date + timedelta(days=365) - timedelta(days=1), formatted
ExpirationDate(effective_date) ==
  Strftime(AddDays(AddDays(Strptime(effective_date), 365), -1))

\* ------------------------------------------------------------ inputs
\* OCR lines an extraction may read (text.splitlines())
L_CalumetDistrict == <<"C","a","l","u","m","e","t"," ","D","i","s","t","r","i","c","t">>
L_Troop123 == <<"T","r","o","o","p"," ","1","2","3">>
L_Youth5 == <<"5"," ","Y","o","u","t","h"," ","R","e","n","e","w","a","l">>
L_Youth3 == <<"3"," ","Y","o","u","t","h"," ","R","e","n","e","w","a","l">>
L_CharterRenewal100 == <<"C","h","a","r","t","e","r"," ","R","e","n","e","w","a","l"," ","1","0","0">>
L_UnitCharter100 == <<"U","n","i","t"," ","C","h","a","r","t","e","r"," ","1","0","0">>
L_UnitCharter3 == <<"U","n","i","t"," ","C","h","a","r","t","e","r"," ","3">>
L_UnitCharter0100 == <<"U","n","i","t"," ","C","h","a","r","t","e","r"," ","0","1","0","0">>
L_tallgrassShip == <<" "," ","t","a","l","l"," ","g","r","a","s","s"," ","S","h","i","p"," ","7"," ">>
L_venturing == <<"v","e","n","t","u","r","i","n","g">>
L_troop9 == <<"t","r","o","o","p"," ","9">>
L_CrewTroop == <<"C","r","e","w"," ","a","n","d"," ","T","r","o","o","p">>
L_SeaVenturing == <<"S","e","a"," ","S","c","o","u","t","s"," ","V","e","n","t","u","r","i","n","g">>
L_ExploringPost == <<"E","x","p","l","o","r","i","n","g"," ","P","o","s","t">>
L_IronThunder == <<"I","r","o","n"," ","H","o","r","s","e"," ","T","h","u","n","d","e","r","b","i","r","d">>
L_PackFee == <<"P","a","c","k"," ","1","2"," ","4"," ","Y","o","u","t","h"," ","P","r","o","g","r","a","m"," ","F","e","e">>

LineInputs ==
  { L_CalumetDistrict, L_Troop123, L_Youth5, L_Youth3, L_CharterRenewal100,
    L_UnitCharter100, L_UnitCharter3, L_tallgrassShip, L_venturing, L_troop9,
    L_CrewTroop, L_SeaVenturing, L_ExploringPost, L_IronThunder, L_PackFee, L_UnitCharter0100 }

\* months in which the extraction may run (datetime.now())
NowInputs ==
  { [year |-> 2024, month |-> 3], [year |-> 2023, month |-> 12],
    [year |-> 2100, month |-> 1] }

\* ------------------------------------------------------------ state
VARIABLES
  pc,         \* "loop": folding lines; "returned": record returned
  lines,      \* the OCR lines folded so far, in order
  data,       \* the record under construction (a dict: absent keys are absent)
  prices,     \* the prices dict
  json_file,  \* contents of data/receipt_data.json (<<>> before it is written)
  sheet,      \* cells written on the active sheet of the loaded template
  output      \* outcome of the projection: the saved workbook or the failure

vars == <<pc, lines, data, prices, json_file, sheet, output>>

\* ------------------------------------------------------------ one line
\* the literal keywords tested with  in line
Keywords ==
  { K_Troop, K_Pack, K_Crew, K_Ship, K_Post, K_CharterRenewal, K_UnitCharter,
    <<"S","c","o","u","t","s"," ","B","S","A">>, <<"C","u","b"," ","S","c","o","u","t","s">>, <<"V","e","n","t","u","r","i","n","g">>, <<"S","e","a"," ","S","c","o","u","t","s">>,
    <<"E","x","p","l","o","r","i","n","g">> }

\* variant: every keyword is tested without regard to letter case
Scan_nocase(raw) ==
  LET line == Strip(raw) IN
  [ district |-> [i \in 1..Len(district_map) |->
                    ContainsNoCase(district_map[i].name, line)],
    has      |-> [k \in Keywords |-> ContainsNoCase(k, line)],
    digits   |-> FirstDigitRun(line),
    price    |-> PriceSearch(line) ]

\* the tests and searches the loop body makes on one stripped line
Scan(raw) ==
  LET line == Strip(raw) IN
  [ district |-> [i \in 1..Len(district_map) |->
                    ContainsNoCase(district_map[i].name, line)],
    has      |-> [k \in Keywords |-> Contains(k, line)],
    digits   |-> FirstDigitRun(line),
    price    |-> PriceSearch(line) ]

\* Scan of every input line, evaluated once
line_scan == [raw \in LineInputs |-> Scan(raw)]

\* variant: a district already recorded is kept (first match wins)
RECURSIVE DistrictLoop_first(_, _, _)
DistrictLoop_first(d, scan, i) ==
  IF i > Len(district_map) THEN d
  ELSE IF scan.district[i] /\ ~ Has(d, "district_name")
    THEN DistrictLoop_first(Put(Put(d, "district_name", district_map[i].name),
                                "district_number", district_map[i].number),
                            scan, i + 1)
    ELSE DistrictLoop_first(d, scan, i + 1)

\* for district, number in district_map.items(): ... (from table entry i on)
RECURSIVE DistrictLoop(_, _, _)
DistrictLoop(d, scan, i) ==
  IF i > Len(district_map) THEN d
  ELSE IF scan.district[i]
    THEN DistrictLoop(Put(Put(d, "district_name", district_map[i].name),
                          "district_number", district_map[i].number),
                      scan, i + 1)
    ELSE DistrictLoop(d, scan, i + 1)

HasUnitKeyword(scan) ==
  \/ scan.has[K_Troop] \/ scan.has[K_Pack] \/ scan.has[K_Crew]
  \/ scan.has[K_Ship] \/ scan.has[K_Post]

\* variant: a unit keyword without a digit run clears the unit number
UnitStep_reset(d, scan) ==
  IF HasUnitKeyword(scan) /\ scan.digits # <<>>
    THEN Put(d, "local_unit_number", scan.digits)
  ELSE IF HasUnitKeyword(scan)
    THEN [x \in (DOMAIN d) \ {"local_unit_number"} |-> d[x]]
  ELSE d

\* extract local unit number
UnitStep(d, scan) ==
  IF HasUnitKeyword(scan) /\ scan.digits # <<>>
    THEN Put(d, "local_unit_number", scan.digits)
    ELSE d

\* "Charter Renewal" in line or "Unit Charter" in line, and a digit run
CharterFires(scan) ==
  /\ scan.has[K_CharterRenewal] \/ scan.has[K_UnitCharter]
  /\ scan.digits # <<>>

\* variant: the 100 -> 1 correction is applied whatever triggered the line
CharterQuantity_always(scan) ==
  LET quantity == ParseInt(scan.digits) IN
  IF quantity = 100 THEN 1 ELSE quantity

\* the quantity a renewal-bearing line contributes
CharterQuantity(scan) ==
  LET quantity == ParseInt(scan.digits) IN
  IF scan.has[K_UnitCharter]
    THEN (IF quantity = 100 THEN 1 ELSE quantity)
    ELSE quantity

CharterStepData(d, scan) ==
  IF CharterFires(scan) THEN Put(d, "charter_renewal", CharterQuantity(scan)) ELSE d

\* variant: the Charter Renewal entry is overwritten, not incremented
CharterStepPrices_overwrite(p, scan) ==
  IF CharterFires(scan)
    THEN [p EXCEPT !["Charter Renewal"] = CharterQuantity(scan)]
    ELSE p

CharterStepPrices(p, scan) ==
  IF CharterFires(scan)
    THEN [p EXCEPT !["Charter Renewal"] = @ + CharterQuantity(scan)]
    ELSE p

\* variant: independent ifs instead of elif, so the last matching branch wins
ProgramStep_independent(d, scan) ==
  LET d1 == IF scan.has[<<"S","c","o","u","t","s"," ","B","S","A">>] \/ scan.has[K_Troop]
              THEN Put(d, "program", "Scouts BSA") ELSE d
      d2 == IF scan.has[<<"C","u","b"," ","S","c","o","u","t","s">>] \/ scan.has[K_Pack]
              THEN Put(d1, "program", "Cub Scouts") ELSE d1
      d3 == IF scan.has[<<"V","e","n","t","u","r","i","n","g">>] \/ scan.has[K_Crew]
              THEN Put(d2, "program", "Venturing") ELSE d2
      d4 == IF scan.has[<<"S","e","a"," ","S","c","o","u","t","s">>] \/ scan.has[K_Ship]
              THEN Put(d3, "program", "Sea Scouts") ELSE d3
  IN IF scan.has[<<"E","x","p","l","o","r","i","n","g">>] \/ scan.has[K_Post]
       THEN Put(d4, "program", "Exploring") ELSE d4

\* extract program type: the if/elif cascade
ProgramStep(d, scan) ==
  IF scan.has[<<"S","c","o","u","t","s"," ","B","S","A">>] \/ scan.has[K_Troop]
    THEN Put(d, "program", "Scouts BSA")
  ELSE IF scan.has[<<"C","u","b"," ","S","c","o","u","t","s">>] \/ scan.has[K_Pack]
    THEN Put(d, "program", "Cub Scouts")
  ELSE IF scan.has[<<"V","e","n","t","u","r","i","n","g">>] \/ scan.has[K_Crew]
    THEN Put(d, "program", "Venturing")
  ELSE IF scan.has[<<"S","e","a"," ","S","c","o","u","t","s">>] \/ scan.has[K_Ship]
    THEN Put(d, "program", "Sea Scouts")
  ELSE IF scan.has[<<"E","x","p","l","o","r","i","n","g">>] \/ scan.has[K_Post]
    THEN Put(d, "program", "Exploring")
  ELSE d

\* variant: a priced line overwrites the entry instead of adding to it
PriceStep_overwrite(p, scan) ==
  LET match == scan.price IN
  IF ~ match.found THEN p
  ELSE LET count == ParseInt(match.count)
           label == Lower(Strip(match.label))
       IN IF Contains(<<"y","o","u","t","h"," ","b","l">>, label)
            THEN [p EXCEPT !["Youth SL Subscription"] = count]
          ELSE IF Contains(<<"y","o","u","t","h"," ","r","e","n","e","w","a","l">>, label) \/ Contains(<<"y","o","u","t","h"," ","n","e","w">>, label)
            THEN [p EXCEPT !["Youth Registration"] = count]
          ELSE IF Contains(<<"a","d","u","l","t"," ","r","e","n","e","w","a","l">>, label) \/ Contains(<<"a","d","u","l","t"," ","n","e","w">>, label)
            THEN [p EXCEPT !["Adult Registration"] = count]
          ELSE IF Contains(<<"p","r","o","g","r","a","m"," ","f","e","e">>, label)
            THEN [p EXCEPT !["Program Fee"] = count]
          ELSE p

\* extract price information
PriceStep(p, scan) ==
  LET match == scan.price IN
  IF ~ match.found THEN p
  ELSE LET count == ParseInt(match.count)
           label == Lower(Strip(match.label))
       IN IF Contains(<<"y","o","u","t","h"," ","b","l">>, label)
            THEN [p EXCEPT !["Youth SL Subscription"] = @ + count]
          ELSE IF Contains(<<"y","o","u","t","h"," ","r","e","n","e","w","a","l">>, label) \/ Contains(<<"y","o","u","t","h"," ","n","e","w">>, label)
            THEN [p EXCEPT !["Youth Registration"] = @ + count]
          ELSE IF Contains(<<"a","d","u","l","t"," ","r","e","n","e","w","a","l">>, label) \/ Contains(<<"a","d","u","l","t"," ","n","e","w">>, label)
            THEN [p EXCEPT !["Adult Registration"] = @ + count]
          ELSE IF Contains(<<"p","r","o","g","r","a","m"," ","f","e","e">>, label)
            THEN [p EXCEPT !["Program Fee"] = @ + count]
          ELSE p

\* the body of  for line in lines  on the data dict
LineData(d, raw) ==
  LET scan == line_scan[raw] IN
  ProgramStep(CharterStepData(UnitStep(DistrictLoop(d, scan, 1), scan), scan), scan)

\* the body of  for line in lines  on the prices dict
LinePrices(p, raw) ==
  LET scan == line_scan[raw] IN PriceStep(CharterStepPrices(p, scan), scan)

\* ------------------------------------------------------------ actions
InitData(now) ==
  [k \in {"council_number", "effective_date", "term"} |->
     CASE k = "council_number" -> "456"
       [] k = "effective_date" -> StrftimeFirstOfMonth(now)
       [] k = "term"           -> "12 months"]

Init ==
  /\ pc = "loop"
  /\ lines = <<>>
  /\ \E now \in NowInputs : data = InitData(now)
  /\ prices = InitPrices
  /\ json_file = <<>>
  /\ sheet = << >>
  /\ output = [saved |-> FALSE, error |-> "none"]

\* one iteration of  for line in lines
ProcessLine(raw) ==
  /\ pc = "loop"
  /\ Len(lines) < MaxLines
  /\ lines' = Append(lines, raw)
  /\ data' = LineData(data, raw)
  /\ prices' = LinePrices(prices, raw)
  /\ UNCHANGED <<pc, json_file, sheet, output>>

\* after the loop: prices and expiration date added, record saved and returned
FinishExtraction ==
  /\ pc = "loop"
  /\ data' = Put(Put(data, "prices", prices),
                 "expiration_date", ExpirationDate(data["effective_date"]))
  /\ json_file' = data'
  /\ pc' = "returned"
  /\ UNCHANGED <<lines, prices, sheet, output>>

Next ==
  \/ \E raw \in LineInputs : ProcessLine(raw)
  \/ FinishExtraction

Spec == Init /\ [][Next]_vars

\* ------------------------------------------------------------ route sheet
\* a JSON value that is not text (null); text is a sequence of characters
NotText == << "null" >>

IsText(v) == v # NotText

\* str.split(sep)
RECURSIVE Split(_, _)
Split(s, sep) ==
  LET pos == {i \in 1..Len(s) : s[i] = sep} IN
  IF pos = {} THEN << s >>
  ELSE LET i == CHOOSE p \in pos : \A q \in pos : p <= q
       IN << SubSeq(s, 1, i - 1) >> \o Split(SubSeq(s, i + 1, Len(s)), sep)

\* sep.join(parts)
RECURSIVE Join(_, _)
Join(parts, sep) ==
  IF parts = << >> THEN << >>
  ELSE IF Len(parts) = 1 THEN parts[1]
  ELSE parts[1] \o << sep >> \o Join(Tail(parts), sep)

\* str.replace(old, new) for single characters
Replace(s, old, new) == [i \in 1..Len(s) |-> IF s[i] = old THEN new ELSE s[i]]

\* dict.get(key, default)
Get(d, k, default) == IF Has(d, k) THEN d[k] ELSE default

\* "/".join(date.split("-")[1:] + [date.split("-")[0]])
FormatDate(date) ==
  Join(Tail(Split(date, "-")) \o << Head(Split(date, "-")) >>, "/")

program_to_unit_type ==
  [ p \in {"Scouts BSA", "Cub Scouts", "Venturing", "Sea Scouts", "Exploring",
           "District", "Council"} |->
    CASE p = "Scouts BSA" -> "Troop"
      [] p = "Cub Scouts" -> "Pack"
      [] p = "Venturing"  -> "Crew"
      [] p = "Sea Scouts" -> "Ship"
      [] p = "Exploring"  -> "Post"
      [] p = "District"   -> "Non-Unit"
      [] p = "Council"    -> "Non-Unit" ]

\* cell of each price category, in mapping order
price_mapping ==
  << <<"Charter Renewal", "C8">>, <<"Youth Registration", "C9">>,
     <<"Youth SL Subscription", "C10">>, <<"Youth Transfer", "C11">>,
     <<"Adult Registration", "C12">>, <<"Multiple/Position Change", "C13">>,
     <<"Adult Transfer", "C14">>, <<"Adult SL Subscription", "C15">>,
     <<"Youth Exploring", "C16">>, <<"Adult Exploring", "C17">>,
     <<"Program Fee", "C18">> >>

\* for field, cell in price_mapping.items(): if field in prices: sheet[cell] = ...
RECURSIVE MapPrices(_, _, _)
MapPrices(cells, p, i) ==
  IF i > Len(price_mapping) THEN cells
  ELSE IF Has(p, price_mapping[i][1])
    THEN MapPrices(Put(cells, price_mapping[i][2], p[price_mapping[i][1]]), p, i + 1)
    ELSE MapPrices(cells, p, i + 1)

\* the cells written from a record whose dates formatted to eff and exp
MapFields(cells, d, eff, exp) ==
  LET c1 == Put(cells, "B4", Get(d, "program", "Unknown Program"))
      c2 == Put(c1, "C4", Get(d, "council_number", "N/A"))
      c3 == Put(c2, "D4", Get(d, "district_number", "N/A"))
      c4 == Put(c3, "G4", Get(d, "local_unit_number", <<"N","/","A">>))
      c5 == Put(c4, "H4", eff)
      c6 == Put(c5, "I4", Get(d, "term", "N/A"))
      c7 == Put(c6, "J4", exp)
      program == Get(d, "program", "")
      c8 == Put(c7, "E4", IF program \in DOMAIN program_to_unit_type
                            THEN program_to_unit_type[program] ELSE "Unknown")
  IN MapPrices(c8, Get(d, "prices", << >>), 1)

\* Route_Sheet_<district>_<unit>_<date>.xlsx
OutputFilename(d, eff) ==
  <<"R","o","u","t","e","_","S","h","e","e","t","_">> \o Replace(Get(d, "district_name", <<"U","n","k","n","o","w","n">>), " ", "_")
    \o <<"_">> \o Get(d, "local_unit_number", <<"U","n","k","n","o","w","n">>)
    \o <<"_">> \o Replace(eff, "/", "-") \o <<".","x","l","s","x">>

\* records handed to the projection
DateInputs ==
  { <<"2","0","2","4","-","0","3","-","0","1">>, <<"2","0","2","4","0","3","0","1">>, <<"0","3","/","0","1","/","2","0","2","4">>, <<"2","0","2","4","-","3">>, << >>, NotText }

SheetPrices == [InitPrices EXCEPT !["Youth Registration"] = 5, !["Charter Renewal"] = 1]

\* marks a date key that the record does not have
NoDate == << "absent" >>

\* a record with the given optional fields (NoDate, "absent", 0, << >>: key
\* not present)
Record(eff, exp, program, district, unit, withPrices) ==
  LET base == [k \in {"council_number", "term"} |->
                 IF k = "term" THEN "12 months" ELSE "456"]
      r1 == IF eff = NoDate THEN base ELSE Put(base, "effective_date", eff)
      r2 == IF exp = NoDate THEN r1 ELSE Put(r1, "expiration_date", exp)
      r3 == IF program = "absent" THEN r2 ELSE Put(r2, "program", program)
      r4 == IF district = 0 THEN r3
            ELSE Put(Put(r3, "district_name", district_map[district].name),
                     "district_number", district_map[district].number)
      r5 == IF unit = << >> THEN r4 ELSE Put(r4, "local_unit_number", unit)
  IN IF withPrices THEN Put(r5, "prices", SheetPrices) ELSE r5

InitSheet ==
  /\ pc = "record"
  /\ lines = << >>
  /\ prices = InitPrices
  /\ json_file = << >>
  /\ sheet = << >>
  /\ output = [saved |-> FALSE, error |-> "none"]
  /\ \E eff \in DateInputs \cup {NoDate},
        exp \in {<<"2","0","2","5","-","0","2","-","2","8">>, <<"2","0","2","5","/","0","2","/","2","8">>, NotText, NoDate},
        program \in {"absent", "Scouts BSA", "District", "Webelos"},
        district \in {0, 9},
        unit \in {<< >>, <<"1","2","3">>},
        withPrices \in BOOLEAN :
       data = Record(eff, exp, program, district, unit, withPrices)

\* update_route_sheet_from_json(data) when the template file is missing
TemplateMissing ==
  /\ pc = "record"
  /\ pc' = "failed"
  /\ output' = [saved |-> FALSE, error |-> "FileNotFoundError"]
  /\ UNCHANGED <<lines, data, prices, json_file, sheet>>

\* update_route_sheet_from_json(data) with the template present
UpdateRouteSheet ==
  /\ pc = "record"
  /\ LET effective_date == Get(data, "effective_date", <<"2","0","2","3","-","0","1","-","0","1">>)
         expiration_date == Get(data, "expiration_date", <<"2","0","2","3","-","1","2","-","3","1">>)
     IN IF ~ IsText(effective_date) \/ ~ IsText(expiration_date)
          THEN \* .split on a value that is not text raises; re-raised as ValueError
               /\ pc' = "failed"
               /\ output' = [saved |-> FALSE, error |-> "ValueError"]
               /\ UNCHANGED sheet
          ELSE LET eff == FormatDate(effective_date)
                   exp == FormatDate(expiration_date)
               IN /\ sheet' = MapFields(sheet, data, eff, exp)
                  /\ output' = [saved |-> TRUE, error |-> "none",
                                name |-> OutputFilename(data, eff),
                                cells |-> sheet']
                  /\ pc' = "saved"
  /\ UNCHANGED <<lines, data, prices, json_file>>

NextSheet == TemplateMissing \/ UpdateRouteSheet

SpecSheet == InitSheet /\ [][NextSheet]_vars

TypeOK ==
  /\ pc \in {"loop", "returned", "record", "saved", "failed"}
  /\ Len(lines) <= MaxLines
  /\ DOMAIN prices = DOMAIN price_fields

\* ------------------------------------------------------------ properties
\* What each input line says, read off the stripped text: the table entries
\* whose name occurs in it in any letter case, the first digit run, the
\* keyword tests in exact case, and the program the priority order selects.
LineReading(raw) ==
  LET line == Strip(raw)
      exact(k) == Contains(k, line)
  IN [ districts |-> {i \in 1..Len(district_map) :
                        ContainsNoCase(district_map[i].name, line)},
       digits    |-> FirstDigitRun(line),
       unitkw    |-> exact(<<"T","r","o","o","p">>) \/ exact(<<"P","a","c","k">>) \/ exact(<<"C","r","e","w">>)
                       \/ exact(<<"S","h","i","p">>) \/ exact(<<"P","o","s","t">>),
       unitchart |-> exact(<<"U","n","i","t"," ","C","h","a","r","t","e","r">>),
       renewal   |-> exact(<<"C","h","a","r","t","e","r"," ","R","e","n","e","w","a","l">>) \/ exact(<<"U","n","i","t"," ","C","h","a","r","t","e","r">>),
       program   |->
         IF exact(<<"S","c","o","u","t","s"," ","B","S","A">>) \/ exact(<<"T","r","o","o","p">>) THEN "Scouts BSA"
         ELSE IF exact(<<"C","u","b"," ","S","c","o","u","t","s">>) \/ exact(<<"P","a","c","k">>) THEN "Cub Scouts"
         ELSE IF exact(<<"V","e","n","t","u","r","i","n","g">>) \/ exact(<<"C","r","e","w">>) THEN "Venturing"
         ELSE IF exact(<<"S","e","a"," ","S","c","o","u","t","s">>) \/ exact(<<"S","h","i","p">>) THEN "Sea Scouts"
         ELSE IF exact(<<"E","x","p","l","o","r","i","n","g">>) \/ exact(<<"P","o","s","t">>) THEN "Exploring"
         ELSE "none",
       youth     |-> /\ Len(line) > Len(<<" ","Y","o","u","t","h"," ","R","e","n","e","w","a","l">>)
                     /\ SubSeq(line, Len(line) - Len(<<" ","Y","o","u","t","h"," ","R","e","n","e","w","a","l">>) + 1, Len(line))
                          = <<" ","Y","o","u","t","h"," ","R","e","n","e","w","a","l">>
                     /\ \A i \in 1..(Len(line) - Len(<<" ","Y","o","u","t","h"," ","R","e","n","e","w","a","l">>)) :
                          IsDigit(line[i]),
       priced    |-> PriceSearch(line).found ]

reading == [raw \in LineInputs |-> LineReading(raw)]

Max(S) == CHOOSE x \in S : \A y \in S : y <= x

\* indices of the folded lines that satisfy P
Where(P(_)) == {i \in 1..Len(lines) : P(lines[i])}

RECURSIVE SumQ(_, _)
SumQ(Q(_), n) == IF n = 0 THEN 0 ELSE SumQ(Q, n - 1) + Q(lines[n])

FeeNames ==
  { "Youth Registration", "Charter Renewal", "Youth SL Subscription",
    "Youth Transfer", "Adult Registration", "Multiple/Position Change",
    "Adult Transfer", "Adult SL Subscription", "Youth Exploring",
    "Adult Exploring", "Program Fee" }

WellFormedPrices(p) ==
  /\ DOMAIN p = FeeNames
  /\ Cardinality(DOMAIN p) = 11
  /\ \A f \in DOMAIN p : p[f] \in Nat

\* C1: after every line of the fold, and in the returned record, prices has
\* exactly the 11 fee-category keys, each with a non-negative integer value.
C1_PricesTotal ==
  /\ WellFormedPrices(prices)
  /\ pc = "returned" => Has(data, "prices") /\ WellFormedPrices(data["prices"])

C1_Witness ==
  /\ pc = "returned"
  /\ Len(lines) = MaxLines
  /\ data["prices"]["Youth Registration"] > 0
  /\ data["prices"]["Youth Transfer"] = 0

\* C2: when some folded line matches a district name, the district pair is
\* the table pair matched by the last such line (for a line matching several
\* names, the latest in table order); name and number are a pair of the table.
HasDistrict(raw) == reading[raw].districts # {}

C2_DistrictLastWins ==
  LET hits == Where(HasDistrict) IN
  IF hits = {}
    THEN ~ Has(data, "district_name") /\ ~ Has(data, "district_number")
    ELSE LET e == district_map[Max(reading[lines[Max(hits)]].districts)] IN
         /\ Has(data, "district_name") /\ Has(data, "district_number")
         /\ data["district_name"] = e.name
         /\ data["district_number"] = e.number

C2_Witness ==
  /\ Len(lines) >= 2
  /\ lines[1] = L_IronThunder
  /\ lines[2] = L_CalumetDistrict
  /\ data["district_name"] = <<"C","a","l","u","m","e","t">>
  /\ data["district_number"] = 1

\* C3: when every folded line has the form "<k> Youth Renewal", the Youth
\* Registration entry is the sum of the k and every other entry is still 0.
IsYouthRenewal(raw) == reading[raw].youth
YouthCount(raw) == ParseInt(reading[raw].digits)

C3_SumLaw ==
  (Where(IsYouthRenewal) = 1..Len(lines)) =>
     /\ prices["Youth Registration"] = SumQ(YouthCount, Len(lines))
     /\ \A f \in FeeNames \ {"Youth Registration"} : prices[f] = 0

C3_Witness ==
  /\ Len(lines) = 3
  /\ Where(IsYouthRenewal) = 1..3
  /\ lines[1] # lines[2]
  /\ prices["Youth Registration"] = 2 * ParseInt(<<"5">>) + ParseInt(<<"3">>)

\* the quantity of a renewal-bearing line: its first digit run, except that
\* 100 on a "Unit Charter" line counts as 1
IsRenewal(raw) == reading[raw].renewal /\ reading[raw].digits # <<>>

RenewalQuantity(raw) ==
  IF ~ IsRenewal(raw) THEN 0
  ELSE IF reading[raw].unitchart /\ ParseInt(reading[raw].digits) = 100 THEN 1
  ELSE ParseInt(reading[raw].digits)

\* C4: folding a "Unit Charter" line whose first digit run is 100 sets
\* charter_renewal to 1 and adds 1 to the Charter Renewal entry; any other
\* first digit run on such a line is kept; a "Charter Renewal" line without
\* "Unit Charter" and with 100 gives charter_renewal = 100.
C4_UnitCharterCorrection ==
  [][ lines' # lines =>
        LET r == reading[lines'[Len(lines')]]
            v == ParseInt(r.digits)
            added == prices'["Charter Renewal"] - prices["Charter Renewal"]
        IN /\ (r.unitchart /\ r.digits # <<>> /\ v = 100) =>
                 data'["charter_renewal"] = 1 /\ added = 1
           /\ (r.unitchart /\ r.digits # <<>> /\ v # 100) =>
                 data'["charter_renewal"] = v /\ added = v
           /\ (r.renewal /\ ~ r.unitchart /\ r.digits # <<>> /\ v = 100) =>
                 data'["charter_renewal"] = 100 /\ added = 100 ]_vars

C4_Witness ==
  /\ lines = <<L_UnitCharter3, L_CharterRenewal100, L_UnitCharter100>>
  /\ data["charter_renewal"] = 1
  /\ prices["Charter Renewal"] = 104

\* C5: the Charter Renewal entry is the sum of the quantities of all
\* renewal-bearing lines; charter_renewal is the quantity of the last one,
\* and is absent when there was none.
C5_RenewalSumVersusLast ==
  LET hits == Where(IsRenewal) IN
  /\ prices["Charter Renewal"] = SumQ(RenewalQuantity, Len(lines))
  /\ hits = {} => ~ Has(data, "charter_renewal")
  /\ hits # {} => /\ Has(data, "charter_renewal")
                  /\ data["charter_renewal"] = RenewalQuantity(lines[Max(hits)])
  /\ Cardinality(hits) = 1 => data["charter_renewal"] = prices["Charter Renewal"]

C5_Witness ==
  /\ Cardinality(Where(IsRenewal)) = 2
  /\ data["charter_renewal"] = 3
  /\ prices["Charter Renewal"] = 103

\* C6: program is the value the priority order Scouts BSA/Troop > Cub
\* Scouts/Pack > Venturing/Crew > Sea Scouts/Ship > Exploring/Post selects on
\* the last folded line that matches any branch; absent when none matched.
HasProgram(raw) == reading[raw].program # "none"

C6_ProgramCascade ==
  LET hits == Where(HasProgram) IN
  IF hits = {} THEN ~ Has(data, "program")
  ELSE Has(data, "program") /\ data["program"] = reading[lines[Max(hits)]].program

C6_Witness ==
  /\ lines = <<L_ExploringPost, L_CrewTroop, L_Youth5>>
  /\ data["program"] = "Scouts BSA"

\* the fields one line yields a fact for
ScalarFacts(raw) ==
  LET r == reading[raw] IN
     (IF r.districts # {} THEN {"district_name", "district_number"} ELSE {})
  \cup (IF r.unitkw /\ r.digits # <<>> THEN {"local_unit_number"} ELSE {})
  \cup (IF r.program # "none" THEN {"program"} ELSE {})
  \cup (IF IsRenewal(raw) THEN {"charter_renewal"} ELSE {})

ScalarFields ==
  {"district_name", "district_number", "local_unit_number", "program",
   "charter_renewal"}

\* C9: no step removes a scalar field that is set, no prices entry ever
\* decreases, and a line that yields no fact for a field leaves it as it was.
C9_Monotonic ==
  [][ /\ \A k \in ScalarFields : Has(data, k) => Has(data', k)
      /\ \A f \in FeeNames : prices'[f] >= prices[f]
      /\ lines' # lines =>
           LET raw == lines'[Len(lines')] IN
           /\ \A k \in ScalarFields \ ScalarFacts(raw) :
                /\ Has(data', k) <=> Has(data, k)
                /\ Has(data, k) => data'[k] = data[k]
           /\ ~ IsRenewal(raw) =>
                prices'["Charter Renewal"] = prices["Charter Renewal"]
           /\ ~ reading[raw].priced =>
                \A f \in FeeNames \ {"Charter Renewal"} : prices'[f] = prices[f]
    ]_vars

C9_Witness ==
  /\ lines = <<L_Troop123, L_UnitCharter3, L_venturing>>
  /\ data["local_unit_number"] = <<"1","2","3">>
  /\ data["program"] = "Scouts BSA"
  /\ data["charter_renewal"] = 3

\* the date n days after the first day of month m of year y, walking the
\* calendar a month at a time
RECURSIVE DaysAfterFirst(_, _, _)
DaysAfterFirst(y, m, n) ==
  IF n < DaysInMonth(y, m) THEN [year |-> y, month |-> m, day |-> n + 1]
  ELSE IF m < 12 THEN DaysAfterFirst(y, m + 1, n - DaysInMonth(y, m))
  ELSE DaysAfterFirst(y + 1, 1, n - DaysInMonth(y, m))

\* for the first day of each month the extraction may run in: that day and
\* the calendar date 364 days later, as ISO text
date_law ==
  [now \in NowInputs |->
     LET first == [year |-> now.year, month |-> now.month, day |-> 1]
         last  == DaysAfterFirst(now.year, now.month, 364)
         iso(d) == ZeroPad(d.year, 4) \o <<"-">> \o ZeroPad(d.month, 2)
                     \o <<"-">> \o ZeroPad(d.day, 2)
     IN [effective |-> iso(first), expiration |-> iso(last)]]

\* C10: no step changes effective_date, no line of the fold sets
\* expiration_date, and the returned expiration_date is the calendar date 364
\* days after the effective date; for 2024-03-01 it is 2025-02-28.
C10_DateLaw ==
  [][ /\ data'["effective_date"] = data["effective_date"]
      /\ pc' = "loop" => ~ Has(data', "expiration_date")
      /\ pc' = "returned" =>
           /\ \E now \in NowInputs :
                /\ data'["effective_date"] = date_law[now].effective
                /\ data'["expiration_date"] = date_law[now].expiration
           /\ data'["effective_date"] = <<"2","0","2","4","-","0","3","-","0","1">> =>
                data'["expiration_date"] = <<"2","0","2","5","-","0","2","-","2","8">>
    ]_vars

C10_Witness ==
  /\ pc = "returned"
  /\ Len(lines) > 0
  /\ data["effective_date"] = <<"2","0","2","4","-","0","3","-","0","1">>
  /\ data["expiration_date"] = <<"2","0","2","5","-","0","2","-","2","8">>
\* the program the priority order selects when the program keywords are
\* matched in any letter case and the unit-type keywords in exact case
ProgramAnyCase(raw) ==
  LET line == Strip(raw)
      any(k) == ContainsNoCase(k, line)
      exact(k) == Contains(k, line)
  IN IF any(<<"S","c","o","u","t","s"," ","B","S","A">>) \/ exact(<<"T","r","o","o","p">>) THEN "Scouts BSA"
     ELSE IF any(<<"C","u","b"," ","S","c","o","u","t","s">>) \/ exact(<<"P","a","c","k">>) THEN "Cub Scouts"
     ELSE IF any(<<"V","e","n","t","u","r","i","n","g">>) \/ exact(<<"C","r","e","w">>) THEN "Venturing"
     ELSE IF any(<<"S","e","a"," ","S","c","o","u","t","s">>) \/ exact(<<"S","h","i","p">>) THEN "Sea Scouts"
     ELSE IF any(<<"E","x","p","l","o","r","i","n","g">>) \/ exact(<<"P","o","s","t">>) THEN "Exploring"
     ELSE "none"

program_any_case == [raw \in LineInputs |-> ProgramAnyCase(raw)]

\* what folding the line raw does to district, unit number and program when
\* the line selects the program selected
CaseRule(raw, selected) ==
  LET r == reading[raw] IN
  /\ r.districts # {} =>
       data'["district_name"] = district_map[Max(r.districts)].name
  /\ selected # "none" => Has(data', "program") /\ data'["program"] = selected
  /\ selected = "none" =>
       /\ Has(data', "program") <=> Has(data, "program")
       /\ Has(data, "program") => data'["program"] = data["program"]
  /\ ~ r.unitkw =>
       /\ Has(data', "local_unit_number") <=> Has(data, "local_unit_number")
       /\ Has(data, "local_unit_number") =>
            data'["local_unit_number"] = data["local_unit_number"]

\* C7 as stated: district names and program keywords match in any letter
\* case, unit-type keywords only in exact case.
C7_AsStated ==
  [][ lines' # lines =>
        CaseRule(lines'[Len(lines')], program_any_case[lines'[Len(lines')]]) ]_vars

\* C7 amended: district names match in any letter case; program keywords and
\* unit-type keywords match only in exact case.
C7_CaseAsymmetry ==
  [][ lines' # lines =>
        CaseRule(lines'[Len(lines')], reading[lines'[Len(lines')]].program) ]_vars

C7_Witness ==
  /\ lines = <<L_tallgrassShip, L_venturing, L_troop9>>
  /\ data["district_name"] = <<"T","a","l","l"," ","G","r","a","s","s">>
  /\ data["program"] = "Sea Scouts"
  /\ data["local_unit_number"] = <<"7">>

\* text of the form YYYY-MM-DD naming a calendar date
WellFormedISO(v) ==
  /\ IsText(v)
  /\ Len(v) = 10
  /\ \A i \in {1, 2, 3, 4, 6, 7, 9, 10} : IsDigit(v[i])
  /\ v[5] = "-" /\ v[8] = "-"
  /\ ParseInt(SubSeq(v, 6, 7)) \in 1..12
  /\ ParseInt(SubSeq(v, 9, 10)) \in
       1..DaysInMonth(ParseInt(SubSeq(v, 1, 4)), ParseInt(SubSeq(v, 6, 7)))

\* C8: a record whose effective_date or expiration_date is not a well-formed
\* ISO date is never projected: no workbook is saved for it.
C8_DateFormatFailure ==
  output.saved =>
    /\ WellFormedISO(Get(data, "effective_date", <<"2","0","2","3","-","0","1","-","0","1">>))
    /\ WellFormedISO(Get(data, "expiration_date", <<"2","0","2","3","-","1","2","-","3","1">>))
====
